---- MODULE Spec2Model ----
(***************************************************************************)
(* State-machine model of the voice-meet signalling servers.               *)
(*                                                                         *)
(*   server = "enhanced" : src/server/enhanced-server.js (Socket.IO rooms, *)
(*                         movie party, byte-range streaming, janitor)     *)
(*   server = "legacy"   : src/unnamed/part_000 (plain WebSocket relay)    *)
(*                                                                         *)
(* The two files are two alternative server programs; Init picks which one *)
(* is running and only that program's handlers are enabled afterwards.     *)
(*                                                                         *)
(* Every handler is one action (Node runs a handler to completion).  The   *)
(* messages the last handler delivered are kept in the bag `sent`, the     *)
(* HTTP answer of the last request in `httpRes`, and `lastEvent` names the *)
(* handler that ran and the branch it took.                                *)
(*                                                                         *)
(* Encodings.  Stored playback positions are seconds (Int); Date.now() is  *)
(* milliseconds; a video-state-sync message carries its currentTime in     *)
(* milliseconds so that position + elapsed/1000 stays an integer.          *)
(* The isHost flag of a registry entry is never read by the code and is    *)
(* not kept.  Closure variables of a closed socket are unreachable and are *)
(* kept as they were.                                                      *)
(***************************************************************************)
EXTENDS Integers, Sequences, FiniteSets, Bags, TLC

\* ---------------------------------------------------------------- bounds
MaxEntries == 3      \* registry entries over all rooms (bounds re-joins)
MaxFiles   == 1      \* uploads accepted over a run
MaxStreams == 2      \* GET /movie read streams opened over a run
MaxTicks   == 1      \* clock advances observed over a run
MaxByte    == 3      \* largest byte offset a Range header names
MaxPeriods == 13     \* periods of the periodic cleanup observed over a run

\* ------------------------------------------------------------ input sets
Sockets  == {"s1", "s2", "s3"}
RoomIds  == {"r1", "r2"}
Names    == {"alice", "bob"}
Undefined == "undefined"
NoSock   == "-"
TickSteps  == {2500}
FileSizes  == {3}
\* data.currentTime of movie-play / movie-pause / movie-seek
TimeInputs == {-5, 0, 10}
NoData == [present |-> FALSE, currentTime |-> 0]
PlayPayloads == {NoData} \cup {[present |-> TRUE, currentTime |-> t] : t \in TimeInputs}
NoTo == "-"

VARIABLES
  server,        \* which program runs
  now,           \* Date.now()
  \* ---- enhanced-server.js
  conn,          \* socket -> "open" | "closed"
  joined,        \* socket -> Socket.IO rooms it has join()ed (adapter state)
  roomId,        \* socket -> closure variable roomId
  userName,      \* socket -> closure variable userName
  rooms,         \* roomId -> sequence of [socketId, userName]
  micStates,     \* roomId -> (userName -> muted)
  videoStates,   \* roomId -> [filePath, isPlaying, currentTime, host, lastUpdateTime]
  activeStreams, \* roomId -> set of stream handles
  streams,       \* handle -> [roomId, file, destroyed, resClosed, closes]
  files,         \* path -> size, the uploads directory
  uploads,       \* uploads whose file is written but whose handler has not run
  filesMade,     \* number of files multer has created
  mtime,         \* path -> time the file was written (stat.mtime)
  timers,        \* pending setTimeout callbacks
  \* ---- part_000
  wsOpen,        \* connection -> readyState is OPEN
  wsRoomId,      \* connection -> closure variable roomId
  wsName,        \* connection -> closure variable name
  wsUserName,    \* connection -> ws.userName
  wsRooms,       \* roomId -> sequence of connections
  \* ---- observation
  sent,          \* bag of messages delivered by the last handler
  httpRes,       \* answer of the last HTTP request
  lastEvent      \* the handler that ran last

ioVars  == <<conn, joined, roomId, userName, rooms, micStates, videoStates,
             activeStreams, streams, files, uploads, filesMade, mtime, timers>>
wsVars  == <<wsOpen, wsRoomId, wsName, wsUserName, wsRooms>>
obsVars == <<sent, httpRes, lastEvent>>
vars    == <<server, now, ioVars, wsVars, obsVars>>

\* ------------------------------------------------------------- utilities
EmptyMap == [x \in {} |-> TRUE]
Has(f, k) == k \in DOMAIN f
Put(f, k, v) == [x \in (DOMAIN f) \cup {k} |-> IF x = k THEN v ELSE f[x]]
Del(f, k) == [x \in (DOMAIN f) \ {k} |-> f[x]]

RECURSIVE BagOfSeq(_)
BagOfSeq(s) == IF s = <<>> THEN EmptyBag
               ELSE SetToBag({Head(s)}) (+) BagOfSeq(Tail(s))

RECURSIVE SumLen(_, _)
SumLen(f, ks) == IF ks = {} THEN 0
                 ELSE LET k == CHOOSE x \in ks : TRUE
                      IN Len(f[k]) + SumLen(f, ks \ {k})

\* Copies, over the whole bag, of the messages in ms.
RECURSIVE SumCopies(_, _)
SumCopies(bag, ms) == IF ms = {} THEN 0
                      ELSE LET m == CHOOSE x \in ms : TRUE
                           IN CopiesIn(m, bag) + SumCopies(bag, ms \ {m})

\* How many messages of a type one session receives in a bag.
Received(bag, type, t) ==
  SumCopies(bag, {m \in BagToSet(bag) : m.type = type /\ m.to = t})

\* A message as one session receives it.
Msg(type, to, name, time, ts, flag, playing) ==
  [type |-> type, to |-> to, name |-> name, time |-> time, ts |-> ts,
   flag |-> flag, playing |-> playing]
Note(type, to, name) == Msg(type, to, name, 0, 0, FALSE, FALSE)
NoResponse == [status |-> 0, start |-> 0, end |-> 0, total |-> 0, length |-> 0,
               ranged |-> FALSE, handle |-> 0]
\* No Range header.
NoRange == [present |-> FALSE, hasStart |-> FALSE, start |-> 0, hasEnd |-> FALSE, end |-> 0]
\* kind/sock/room/branch: the handler, its socket, the room it worked on and
\* the branch it took; closeAll: the rooms it called closeActiveStreams on,
\* in order; handles: the stream handles whose descriptor it closed;
\* range: the Range header of a media request; readers: the handles that
\* were open on a file when the handler tried to delete it; arg: a payload
\* field the other fields do not show.
Event(kind, sock, room, branch, closeAll) ==
  [kind |-> kind, sock |-> sock, room |-> room, branch |-> branch,
   closeAll |-> closeAll, handles |-> {}, range |-> NoRange, readers |-> {},
   arg |-> ""]
\* The handles a handler closed: live in strs, destroyed in strs2.
Closed(strs, strs2) ==
  {h \in 1..Len(strs) : ~strs[h].destroyed /\ strs2[h].destroyed}

\* The process of enhanced-server.js is alive.  No handler installs a
\* catch around the socket and timer callbacks and there is no
\* process.on('uncaughtException'): an exception that leaves a callback
\* terminates the process.
Running == server = "enhanced" /\ lastEvent.branch # "threw"

\* ---------------------------------------------------- Socket.IO delivery
\* Members of the adapter room r: open sockets that called socket.join(r).
IoRoom(r) == {s \in Sockets : conn[s] = "open" /\ r \in joined[s]}
\* socket.to(r).emit(..): every member of r but the sender.
ToRoomExcept(s, r, m(_)) == SetToBag({m(t) : t \in IoRoom(r) \ {s}})
\* io.to(r).emit(..): every member of r.
ToRoom(r, m(_)) == SetToBag({m(t) : t \in IoRoom(r)})
\* io.to(socketId).emit(..): the socket's own room.
ToSocket(t, m(_)) == IF t \in Sockets /\ conn[t] = "open" THEN SetToBag({m(t)})
                     ELSE EmptyBag

TotalEntries == SumLen(rooms, DOMAIN rooms)

\* ------------------------------------------------------ stream handles
\* Node's stream.destroy(): closes the descriptor of a live stream; a no-op
\* on a stream that is already destroyed.
Destroy(strs, h) ==
  IF strs[h].destroyed THEN strs
  ELSE [strs EXCEPT ![h].destroyed = TRUE, ![h].closes = @ + 1]

DestroyAll(strs, hs) ==
  [h \in DOMAIN strs |->
     IF h \in hs /\ ~strs[h].destroyed
     THEN [strs[h] EXCEPT !.destroyed = TRUE, !.closes = @ + 1]
     ELSE strs[h]]

\* The pair of stores the stream code works on.
StreamStore == [active |-> activeStreams, streams |-> streams]

\* Variant: the set is cleared and dropped, the streams are left open.
closeActiveStreamsKeepOpen(S, r) ==
  IF Has(S.active, r) /\ Cardinality(S.active[r]) > 0
  THEN [active |-> Del(S.active, r), streams |-> S.streams]
  ELSE S

\* Variant: a room without a set is given an empty one.
closeActiveStreamsRecreate(S, r) ==
  IF Has(S.active, r) /\ Cardinality(S.active[r]) > 0
  THEN [active |-> Del(S.active, r), streams |-> DestroyAll(S.streams, S.active[r])]
  ELSE [active |-> Put(S.active, r, {}), streams |-> S.streams]

\* The read streams still open on file f.
Readers(strs, f) == {h \in 1..Len(strs) : ~strs[h].destroyed /\ strs[h].file = f}

\* Variant: nothing is closed and nothing is deregistered.
closeActiveStreamsSkip(S, r) == S

\* closeActiveStreams(roomId)
closeActiveStreams(S, r) ==
  IF Has(S.active, r) /\ Cardinality(S.active[r]) > 0
  THEN [active |-> Del(S.active, r), streams |-> DestroyAll(S.streams, S.active[r])]
  ELSE S

\* Variant: the handle is taken out of the set, the stream is not destroyed.
cleanupStreamNoDestroy(S, h) ==
  LET r == S.streams[h].roomId
  IN [active  |-> IF Has(S.active, r)
                  THEN [S.active EXCEPT ![r] = @ \ {h}] ELSE S.active,
      streams |-> S.streams]

\* cleanupStream() of the request that opened handle h
cleanupStream(S, h) ==
  LET r == S.streams[h].roomId
  IN [active  |-> IF Has(S.active, r)
                  THEN [S.active EXCEPT ![r] = @ \ {h}] ELSE S.active,
      streams |-> Destroy(S.streams, h)]

\* ------------------------------------------------------------ playback
\* Variant: the host comparison is left out.
IsHostAnyone(vs, r, u) == Has(vs, r)

\* videoStates[roomId] && videoStates[roomId].host === userName
IsHost(vs, r, u) == Has(vs, r) /\ vs[r].host = u

\* data.currentTime || 0
OrZero(t) == IF t = 0 THEN 0 ELSE t

\* The assignments of movie-play / movie-pause / movie-seek, in source
\* order.  A missing payload makes `data.currentTime` throw: in play and
\* pause after isPlaying was written, in seek (whose log line reads it)
\* before the guard.
ControlUpdate(v, kind, data, t) ==
  LET v1 == IF kind = "movie-play" THEN [v EXCEPT !.isPlaying = TRUE]
            ELSE IF kind = "movie-pause" THEN [v EXCEPT !.isPlaying = FALSE]
            ELSE v
  IN IF ~data.present THEN v1
     ELSE [v1 EXCEPT !.currentTime = OrZero(data.currentTime),
                     !.lastUpdateTime = t]

\* Milliseconds of a position held in seconds.
Ms(sec) == sec * 1000

\* Variant: the elapsed time is added whether or not the video plays.
AdjustedMsAlways(v, t) == Ms(v.currentTime) + (t - v.lastUpdateTime)

\* adjustedCurrentTime of request-video-state, in milliseconds:
\* currentTime + (Date.now() - lastUpdateTime) / 1000 seconds.
AdjustedMs(v, t) ==
  IF v.isPlaying /\ v.lastUpdateTime # 0
  THEN Ms(v.currentTime) + (t - v.lastUpdateTime)
  ELSE Ms(v.currentTime)

\* ------------------------------------------------------------ registry
Entry(s, n) == [socketId |-> s, userName |-> n]
NamesOf(seq) == [i \in 1..Len(seq) |-> seq[i].userName]
\* Array.prototype.find(client => client.userName === n): index of the first
\* match, 0 when there is none.
FindByName(seq, n) ==
  IF \E i \in 1..Len(seq) : seq[i].userName = n
  THEN CHOOSE i \in 1..Len(seq) :
         seq[i].userName = n /\ \A j \in 1..(i - 1) : seq[j].userName # n
  ELSE 0

\* Messages
ExistingPeer(to, n) == Note("existing-peer", to, n)
NewPeer(to, n)      == Note("new-peer", to, n)
PeerLeft(to, n)     == Note("peer-left", to, n)
SignalMsg(to, from) == Note("signal", to, from)
MicMsg(to, n, muted) == Msg("mic-status", to, n, 0, 0, muted, FALSE)
PartyEnded(to, host) == Note("movie-party-ended", to, host)
VideoUploaded(to, host) == Note("video-uploaded", to, host)
ControlMsg(kind, to, ct, t) == Msg(kind, to, "", ct, t, FALSE, FALSE)
SyncMsg(to, v, ms) == Msg("video-state-sync", to, v.host, ms, 0, TRUE, v.isPlaying)
NoVideoMsg(to) == Msg("video-state-sync", to, "", 0, 0, FALSE, FALSE)

PassTimer == [kind |-> "pass", file |-> 0]
Timer(kind, f) == [kind |-> kind, file |-> f]

\* ------------------------------------------- enhanced-server.js: sockets
\* socket.on('join')
Join(s, r, n) ==
  /\ Running
  /\ conn[s] = "open"
  /\ TotalEntries < MaxEntries
  /\ LET before   == IF Has(rooms, r) THEN rooms[r] ELSE <<>>
         mic0     == IF Has(micStates, r) THEN micStates[r] ELSE EmptyMap
         mic1     == Put(mic0, n, FALSE)
         existing == NamesOf(before)
         peers    == BagOfSeq([i \in 1..Len(existing) |-> ExistingPeer(s, existing[i])])
         mics     == SetToBag({MicMsg(s, k, mic1[k]) : k \in (DOMAIN mic1) \ {n}})
         news     == ToRoomExcept(s, r, LAMBDA t : NewPeer(t, n))
         sync     == IF Has(videoStates, r)
                     THEN SetToBag({SyncMsg(s, videoStates[r], Ms(videoStates[r].currentTime))})
                     ELSE EmptyBag
     IN /\ roomId' = [roomId EXCEPT ![s] = r]
        /\ userName' = [userName EXCEPT ![s] = n]
        /\ joined' = [joined EXCEPT ![s] = @ \cup {r}]
        /\ rooms' = Put(rooms, r, Append(before, Entry(s, n)))
        /\ micStates' = Put(micStates, r, mic1)
        /\ sent' = peers (+) mics (+) news (+) sync
  /\ httpRes' = NoResponse
  /\ lastEvent' = Event("join", s, r, n, <<>>)
  /\ UNCHANGED <<server, now, conn, videoStates, activeStreams, streams, files,
                 uploads, filesMade, mtime, timers, wsVars>>

\* Variant: the name is looked up in every room of the registry.
SignalTargetAnyRoom(s, to) ==
  IF \E r \in DOMAIN rooms : FindByName(rooms[r], to) # 0
  THEN LET r == CHOOSE q \in DOMAIN rooms : FindByName(rooms[q], to) # 0
       IN rooms[r][FindByName(rooms[r], to)].socketId
  ELSE NoSock

\* socket.on('signal'), targeted branch: the socket the signal goes to
SignalTarget(s, to) ==
  LET r == roomId[s]
      i == IF Has(rooms, r) THEN FindByName(rooms[r], to) ELSE 0
  IN IF i = 0 THEN NoSock ELSE rooms[r][i].socketId

\* socket.on('signal')
Signal(s, to) ==
  /\ Running
  /\ conn[s] = "open"
  /\ sent' = IF to # NoTo
             THEN ToSocket(SignalTarget(s, to), LAMBDA t : SignalMsg(t, userName[s]))
             ELSE ToRoomExcept(s, roomId[s], LAMBDA t : SignalMsg(t, userName[s]))
  /\ httpRes' = NoResponse
  /\ lastEvent' = Event("signal", s, roomId[s], to, <<>>)
  /\ UNCHANGED <<server, now, ioVars, wsVars>>

\* socket.on('movie-play' | 'movie-pause' | 'movie-seek')
Control(s, kind, data) ==
  /\ Running
  /\ conn[s] = "open"
  /\ LET r == roomId[s]
         threwEarly == kind = "movie-seek" /\ ~data.present
     IN IF ~threwEarly /\ IsHost(videoStates, r, userName[s])
        THEN /\ videoStates' = [videoStates EXCEPT ![r] = ControlUpdate(@, kind, data, now)]
             /\ sent' = IF data.present
                        THEN ToRoomExcept(s, r, LAMBDA t : ControlMsg(kind, t, data.currentTime, now))
                        ELSE EmptyBag
             /\ lastEvent' = Event(kind, s, r, IF data.present THEN "host" ELSE "threw", <<>>)
        ELSE /\ videoStates' = videoStates
             /\ sent' = EmptyBag
             /\ lastEvent' = Event(kind, s, r, IF threwEarly THEN "threw" ELSE "ignored", <<>>)
  /\ httpRes' = NoResponse
  /\ UNCHANGED <<server, now, conn, joined, roomId, userName, rooms, micStates,
                 activeStreams, streams, files, uploads, filesMade, mtime, timers, wsVars>>

\* socket.on('request-video-state'); q is data.roomId, NoTo when absent
RequestVideoState(s, q) ==
  /\ Running
  /\ conn[s] = "open"
  /\ LET r == IF q # NoTo THEN q ELSE roomId[s]
     IN /\ sent' = IF Has(videoStates, r)
                   THEN SetToBag({SyncMsg(s, videoStates[r], AdjustedMs(videoStates[r], now))})
                   ELSE SetToBag({NoVideoMsg(s)})
        /\ lastEvent' = Event("request-video-state", s, r,
                              IF Has(videoStates, r) THEN "video" ELSE "no-video", <<>>)
  /\ httpRes' = NoResponse
  /\ UNCHANGED <<server, now, ioVars, wsVars>>

\* socket.on('mic-status')
MicStatus(s, muted) ==
  /\ Running
  /\ conn[s] = "open"
  /\ LET r == roomId[s]
     IN /\ micStates' = IF Has(micStates, r)
                        THEN [micStates EXCEPT ![r] = Put(@, userName[s], muted)]
                        ELSE micStates
        /\ sent' = ToRoomExcept(s, r, LAMBDA t : MicMsg(t, userName[s], muted))
        /\ lastEvent' = Event("mic-status", s, r, "", <<>>)
  /\ httpRes' = NoResponse
  /\ UNCHANGED <<server, now, conn, joined, roomId, userName, rooms, videoStates,
                 activeStreams, streams, files, uploads, filesMade, mtime, timers, wsVars>>

\* socket.on('stop-movie-party'); r and host are the payload's fields
StopMovieParty(s, r, host) ==
  /\ Running
  /\ conn[s] = "open"
  /\ IF IsHost(videoStates, r, host) /\ userName[s] = host
     THEN LET path == videoStates[r].filePath
              S    == closeActiveStreams(StreamStore, r)
          IN /\ timers' = IF Has(files, path)
                          THEN timers \cup {Timer("stop-unlink", path)} ELSE timers
             /\ videoStates' = Del(videoStates, r)
             /\ activeStreams' = S.active
             /\ streams' = S.streams
             /\ sent' = ToRoom(r, LAMBDA t : PartyEnded(t, host))
             /\ lastEvent' = [Event("stop-movie-party", s, r, "stopped", <<r>>)
                               EXCEPT !.handles = Closed(streams, S.streams),
                                      !.arg = host]
     ELSE /\ UNCHANGED <<timers, videoStates, activeStreams, streams>>
          /\ sent' = EmptyBag
          /\ lastEvent' = [Event("stop-movie-party", s, r, "ignored", <<>>)
                            EXCEPT !.arg = host]
  /\ httpRes' = NoResponse
  /\ UNCHANGED <<server, now, conn, joined, roomId, userName, rooms, micStates,
                 files, uploads, filesMade, mtime, wsVars>>

\* socket.on('disconnect'); unlinkOk is whether fs.unlinkSync succeeds
Disconnect(s, unlinkOk) ==
  /\ Running
  /\ conn[s] = "open"
  /\ conn' = [conn EXCEPT ![s] = "closed"]
  /\ joined' = [joined EXCEPT ![s] = {}]
  /\ IF ~Has(rooms, roomId[s])
     THEN /\ unlinkOk
          /\ UNCHANGED <<rooms, micStates, videoStates, activeStreams, streams,
                         files, timers>>
          /\ sent' = EmptyBag
          /\ lastEvent' = Event("disconnect", s, roomId[s], "no-room", <<>>)
     ELSE
       LET r       == roomId[s]
           u       == userName[s]
           wasHost == IsHost(videoStates, r, u)
           rooms1  == [rooms EXCEPT ![r] = SelectSeq(@, LAMBDA c : c.socketId # s)]
           mic1    == IF Has(micStates, r)
                      THEN [micStates EXCEPT ![r] = Del(@, u)] ELSE micStates
           out1    == ToRoomExcept(s, r, LAMBDA t : PeerLeft(t, u))
           \* host branch (lines 560-587)
           hostRun == wasHost /\ Has(videoStates, r)
           path2   == videoStates[r].filePath
           files2  == IF hostRun /\ Has(files, path2) /\ unlinkOk
                      THEN Del(files, path2) ELSE files
           out2    == IF hostRun
                      THEN out1 (+) ToRoomExcept(s, r, LAMBDA t : PartyEnded(t, u))
                      ELSE out1
           vs2     == IF hostRun THEN Del(videoStates, r) ELSE videoStates
           S2      == IF hostRun THEN closeActiveStreams(StreamStore, r) ELSE StreamStore
           tm2     == IF hostRun THEN timers \cup {PassTimer} ELSE timers
           \* empty-room branch (lines 589-616)
           empty   == Len(rooms1[r]) = 0
           rooms3  == IF empty THEN Del(rooms1, r) ELSE rooms1
           mic3    == IF empty THEN Del(mic1, r) ELSE mic1
           fallback == empty /\ Has(vs2, r)
           path3   == vs2[r].filePath
           threw   == fallback /\ Has(files2, path3) /\ ~unlinkOk
           files3  == IF fallback /\ Has(files2, path3) /\ unlinkOk
                      THEN Del(files2, path3) ELSE files2
           vs3     == IF fallback /\ ~threw THEN Del(vs2, r) ELSE vs2
           S3      == IF empty /\ ~threw THEN closeActiveStreams(S2, r) ELSE S2
           tm3     == IF empty /\ ~threw THEN tm2 \cup {PassTimer} ELSE tm2
           unlinks == (hostRun /\ Has(files, path2)) \/ (fallback /\ Has(files2, path3))
           readers == (IF hostRun /\ Has(files, path2)
                       THEN Readers(streams, path2) ELSE {})
                      \cup (IF fallback /\ Has(files2, path3)
                            THEN Readers(S2.streams, path3) ELSE {})
       IN /\ unlinks \/ unlinkOk
          /\ rooms' = rooms3
          /\ micStates' = mic3
          /\ videoStates' = vs3
          /\ activeStreams' = S3.active
          /\ streams' = S3.streams
          /\ files' = files3
          /\ timers' = tm3
          /\ sent' = out2
          /\ lastEvent' = [Event("disconnect", s, r,
                                 IF threw THEN "threw"
                                 ELSE IF hostRun THEN "host" ELSE "left",
                                 (IF hostRun THEN <<r>> ELSE <<>>) \o
                                 (IF empty /\ ~threw THEN <<r>> ELSE <<>>))
                            EXCEPT !.handles = Closed(streams, S3.streams),
                                   !.readers = readers]
  /\ httpRes' = NoResponse
  /\ UNCHANGED <<server, now, roomId, userName, uploads, filesMade, mtime, wsVars>>

\* --------------------------------------------- enhanced-server.js: HTTP
\* POST /upload-video, multer's part: the file movie-<roomId>-<now> is
\* written to the uploads directory before the route handler runs.
UploadBegin(r, host, size) ==
  /\ Running
  /\ filesMade < MaxFiles
  /\ filesMade' = filesMade + 1
  /\ files' = Put(files, filesMade + 1, size)
  /\ mtime' = Put(mtime, filesMade + 1, now)
  /\ uploads' = uploads \cup {[file |-> filesMade + 1, roomId |-> r, hostName |-> host]}
  /\ sent' = EmptyBag
  /\ httpRes' = NoResponse
  /\ lastEvent' = Event("upload-begin", NoSock, r, host, <<>>)
  /\ UNCHANGED <<server, now, conn, joined, roomId, userName, rooms, micStates,
                 videoStates, activeStreams, streams, timers, wsVars>>

\* POST /upload-video, the route handler
UploadVideo(up) ==
  /\ Running
  /\ up \in uploads
  /\ uploads' = uploads \ {up}
  /\ videoStates' = Put(videoStates, up.roomId,
                        [filePath |-> up.file, isPlaying |-> FALSE, currentTime |-> 0,
                         host |-> up.hostName, lastUpdateTime |-> now])
  /\ sent' = ToRoom(up.roomId, LAMBDA t : VideoUploaded(t, up.hostName))
  /\ httpRes' = [NoResponse EXCEPT !.status = 200]
  /\ mtime' = [mtime EXCEPT ![up.file] = now]
  /\ lastEvent' = Event("upload-video", NoSock, up.roomId, up.hostName, <<>>)
  /\ UNCHANGED <<server, now, conn, joined, roomId, userName, rooms, micStates,
                 activeStreams, streams, files, filesMade, timers, wsVars>>

\* The Range header: absent (NoRange), "bytes=<start>-<end>", "bytes=<start>-" or
\* "bytes=-<end>" (parts[0] is then the empty string).
Ranges ==
  {NoRange}
  \cup {[present |-> TRUE, hasStart |-> TRUE, start |-> a, hasEnd |-> TRUE, end |-> b] :
          a \in 0..MaxByte, b \in 0..MaxByte}
  \cup {[present |-> TRUE, hasStart |-> TRUE, start |-> a, hasEnd |-> FALSE, end |-> 0] :
          a \in 0..MaxByte}
  \cup {[present |-> TRUE, hasStart |-> FALSE, start |-> 0, hasEnd |-> TRUE, end |-> b] :
          b \in 1..MaxByte}

\* end = parts[1] ? parseInt(parts[1], 10) : fileSize - 1
RangeEnd(range, fileSize) == IF range.hasEnd THEN range.end ELSE fileSize - 1

\* Variant: the length of a half-open interval.
ChunkSizeExclusive(start, end) == end - start

\* chunksize = (end - start) + 1
ChunkSize(start, end) == (end - start) + 1

\* fs.createReadStream(videoPath, {start, end}) throws synchronously when
\* start is NaN (parseInt of the empty string) or start > end.
ReadStreamThrows(range, fileSize) ==
  range.present /\ (~range.hasStart \/ range.start > RangeEnd(range, fileSize))

\* The status line and headers GET /movie/:roomId answers with.
MovieResponse(vs, fs, r, range, h) ==
  IF ~Has(vs, r) \/ ~Has(fs, vs[r].filePath)
  THEN [NoResponse EXCEPT !.status = 404]
  ELSE LET fileSize == fs[vs[r].filePath]
       IN IF ReadStreamThrows(range, fileSize)
          THEN [NoResponse EXCEPT !.status = 500]
          ELSE IF range.present
          THEN [status |-> 206, start |-> range.start, end |-> RangeEnd(range, fileSize),
                total |-> fileSize,
                length |-> ChunkSize(range.start, RangeEnd(range, fileSize)),
                ranged |-> TRUE, handle |-> h]
          ELSE [status |-> 200, start |-> 0, end |-> 0, total |-> fileSize,
                length |-> fileSize, ranged |-> FALSE, handle |-> h]

NewStream(r) == [roomId |-> r, file |-> videoStates[r].filePath, destroyed |-> FALSE,
                 resClosed |-> FALSE, closes |-> 0]

\* app.get('/movie/:roomId')
GetMovie(r, range) ==
  /\ Running
  /\ LET h   == Len(streams) + 1
         res == MovieResponse(videoStates, files, r, range, h)
     IN /\ httpRes' = res
        /\ IF res.handle # 0
           THEN /\ Len(streams) < MaxStreams
                /\ streams' = Append(streams, NewStream(r))
                /\ activeStreams' = Put(activeStreams, r,
                                        (IF Has(activeStreams, r) THEN activeStreams[r] ELSE {})
                                        \cup {h})
           ELSE UNCHANGED <<streams, activeStreams>>
  /\ sent' = EmptyBag
  /\ lastEvent' = [Event("get-movie", NoSock, r, "", <<>>) EXCEPT !.range = range]
  /\ UNCHANGED <<server, now, conn, joined, roomId, userName, rooms, micStates,
                 videoStates, files, uploads, filesMade, mtime, timers, wsVars>>

\* A stream event of handle h runs cleanupStream.
StreamEvent(h, kind) ==
  /\ Running
  /\ h \in 1..Len(streams)
  /\ LET S == cleanupStream(StreamStore, h)
     IN /\ activeStreams' = S.active
        /\ streams' = IF kind = "res-close"
                      THEN [S.streams EXCEPT ![h].resClosed = TRUE]
                      ELSE S.streams
        /\ lastEvent' = [Event(kind, NoSock, streams[h].roomId, "", <<>>)
                          EXCEPT !.handles = Closed(streams, S.streams)]
  /\ sent' = EmptyBag
  /\ httpRes' = [NoResponse EXCEPT !.handle = h]
  /\ UNCHANGED <<server, now, conn, joined, roomId, userName, rooms, micStates,
                 videoStates, files, uploads, filesMade, mtime, timers, wsVars>>

\* file.on('end'): the read stream delivered its last byte
FileEnd(h) ==
  /\ h \in 1..Len(streams)
  /\ ~streams[h].destroyed
  /\ StreamEvent(h, "file-end")

\* file.on('error'): the read failed
FileError(h) ==
  /\ h \in 1..Len(streams)
  /\ ~streams[h].destroyed
  /\ StreamEvent(h, "file-error")

\* res.on('close'): the response ended or the client went away
ResClose(h) ==
  /\ h \in 1..Len(streams)
  /\ ~streams[h].resClosed
  /\ StreamEvent(h, "res-close")

\* ------------------------------------------- enhanced-server.js: timers
ActiveFilePaths == {videoStates[r].filePath : r \in DOMAIN videoStates}

\* The callback of cleanupOrphanedVideos(): out[f] is how the open/unlink
\* of an unreferenced file f ends: "ok", "busy" (EPERM/EBUSY) or "error".
cleanupOrphanedVideos(out) ==
  /\ Running
  /\ PassTimer \in timers
  /\ LET orphans == (DOMAIN files) \ ActiveFilePaths
     IN /\ out \in [orphans -> {"ok", "busy", "error"}]
        /\ files' = [f \in {x \in DOMAIN files : x \notin orphans \/ out[x] # "ok"} |-> files[f]]
        /\ timers' = (timers \ {PassTimer})
                     \cup {Timer("retry", f) : f \in {x \in orphans : out[x] = "busy"}}
  /\ sent' = EmptyBag
  /\ httpRes' = NoResponse
  /\ lastEvent' = Event("cleanup-pass", NoSock, "", "", <<>>)
  /\ UNCHANGED <<server, now, conn, joined, roomId, userName, rooms, micStates,
                 videoStates, activeStreams, streams, uploads, filesMade, mtime, wsVars>>

\* The delayed unlink of stop-movie-party (lines 497-516)
StopUnlink(f, outcome) ==
  /\ Running
  /\ Timer("stop-unlink", f) \in timers
  /\ outcome \in {"ok", "busy", "error"}
  /\ Has(files, f) \/ outcome = "error"
  /\ files' = IF outcome = "ok" THEN Del(files, f) ELSE files
  /\ timers' = (timers \ {Timer("stop-unlink", f)})
               \cup (IF outcome = "busy" THEN {Timer("stop-retry", f)} ELSE {})
  /\ sent' = EmptyBag
  /\ httpRes' = NoResponse
  /\ lastEvent' = [Event("stop-unlink", NoSock, "", outcome, <<>>)
                    EXCEPT !.readers = Readers(streams, f)]
  /\ UNCHANGED <<server, now, conn, joined, roomId, userName, rooms, micStates,
                 videoStates, activeStreams, streams, uploads, filesMade, mtime, wsVars>>

\* The retry callbacks (lines 504-511 and 675-681): unlink, errors swallowed
RetryUnlink(kind, f, ok) ==
  /\ Running
  /\ kind \in {"stop-retry", "retry"}
  /\ Timer(kind, f) \in timers
  /\ Has(files, f) \/ ~ok
  /\ files' = IF ok THEN Del(files, f) ELSE files
  /\ timers' = timers \ {Timer(kind, f)}
  /\ sent' = EmptyBag
  /\ httpRes' = NoResponse
  /\ lastEvent' = [Event(kind, NoSock, "", IF ok THEN "ok" ELSE "error", <<>>)
                    EXCEPT !.readers = Readers(streams, f)]
  /\ UNCHANGED <<server, now, conn, joined, roomId, userName, rooms, micStates,
                 videoStates, activeStreams, streams, uploads, filesMade, mtime, wsVars>>

\* The thresholds of shouldDelete and the period of setInterval, in ms.
OrphanAge     == 3600000
IdleAge       == 600000
CleanupPeriod == 300000

\* fileAge = Date.now() - stat.mtime: a file multer is still writing has
\* just been modified.
FileAge(f) == IF \E up \in uploads : up.file = f THEN 0 ELSE now - mtime[f]

\* shouldDelete of the periodic pass
shouldDelete(vs, f, fileAge) ==
  LET isInUse == \E r \in DOMAIN vs : vs[r].filePath = f
  IN \/ (~isInUse /\ fileAge > OrphanAge)
     \/ (DOMAIN vs = {} /\ fileAge > IdleAge)

\* The setInterval callback, every CleanupPeriod after start-up; out[f] is
\* how the open/unlink of a file it decided to delete ends.
periodicCleanup(out) ==
  /\ Running
  /\ now > 1000
  /\ (now - 1000) % CleanupPeriod = 0
  /\ LET doomed == {f \in DOMAIN files : shouldDelete(videoStates, f, FileAge(f))}
     IN /\ out \in [doomed -> {"ok", "busy", "error"}]
        /\ files' = [f \in {x \in DOMAIN files : x \notin doomed \/ out[x] # "ok"} |-> files[f]]
  /\ sent' = EmptyBag
  /\ httpRes' = NoResponse
  /\ lastEvent' = Event("periodic-pass", NoSock, "", "", <<>>)
  /\ UNCHANGED <<server, now, conn, joined, roomId, userName, rooms, micStates,
                 videoStates, activeStreams, streams, uploads, filesMade, mtime,
                 timers, wsVars>>

\* Nothing happens for one period of the periodic cleanup.
Sleep ==
  /\ Running
  /\ now + CleanupPeriod <= 1000 + MaxPeriods * CleanupPeriod
  /\ now' = now + CleanupPeriod
  /\ sent' = EmptyBag
  /\ httpRes' = NoResponse
  /\ lastEvent' = Event("sleep", NoSock, "", "", <<>>)
  /\ UNCHANGED <<server, ioVars, wsVars>>

\* Date.now() advances.
Tick(d) ==
  /\ Running
  /\ now + d <= 1000 + MaxTicks * 2500
  /\ now' = now + d
  /\ sent' = EmptyBag
  /\ httpRes' = NoResponse
  /\ lastEvent' = Event("tick", NoSock, "", "", <<>>)
  /\ UNCHANGED <<server, ioVars, wsVars>>

\* ------------------------------------------------------------ part_000
WsTotalEntries == SumLen(wsRooms, DOMAIN wsRooms)

\* rooms[roomId].find(client => client.userName === n) over the names un
WsFind(seq, un, n) ==
  IF \E i \in 1..Len(seq) : un[seq[i]] = n
  THEN CHOOSE i \in 1..Len(seq) : un[seq[i]] = n /\ \A j \in 1..(i - 1) : un[seq[j]] # n
  ELSE 0

\* forEach(client => client !== ws && client.readyState === OPEN && send)
WsFanOut(seq, c, m(_)) ==
  LET live == SelectSeq(seq, LAMBDA e : e # c /\ wsOpen[e])
  IN BagOfSeq([i \in 1..Len(live) |-> m(live[i])])

\* The refresh-peer double loop of case 'join' (lines 54-69)
WsRefresh(existing, after, un) ==
  LET n      == Len(existing)
      I(k)   == ((k - 1) \div n) + 1
      J(k)   == ((k - 1) % n) + 1
      T(k)   == WsFind(after, un, existing[I(k)])
      ks     == SelectSeq([k \in 1..(n * n) |-> k],
                          LAMBDA k : /\ existing[I(k)] # existing[J(k)]
                                     /\ T(k) # 0
                                     /\ wsOpen[after[T(k)]])
  IN IF n >= 2
     THEN BagOfSeq([x \in 1..Len(ks) |->
                      Note("refresh-peer", after[T(ks[x])], existing[J(ks[x])])])
     ELSE EmptyBag

\* case 'join'
WsJoin(c, r, n) ==
  /\ server = "legacy"
  /\ wsOpen[c]
  /\ WsTotalEntries < MaxEntries
  /\ LET before   == IF Has(wsRooms, r) THEN wsRooms[r] ELSE <<>>
         existing == SelectSeq([i \in 1..Len(before) |-> wsUserName[before[i]]],
                               LAMBDA x : x # Undefined)
         un       == [wsUserName EXCEPT ![c] = n]
         after    == Append(before, c)
     IN /\ wsRoomId' = [wsRoomId EXCEPT ![c] = r]
        /\ wsName' = [wsName EXCEPT ![c] = n]
        /\ wsUserName' = un
        /\ wsRooms' = Put(wsRooms, r, after)
        /\ sent' = BagOfSeq([i \in 1..Len(existing) |-> ExistingPeer(c, existing[i])])
                   (+) WsFanOut(after, c, LAMBDA e : NewPeer(e, n))
                   (+) WsRefresh(existing, after, un)
  /\ httpRes' = NoResponse
  /\ lastEvent' = Event("join", c, r, n, <<>>)
  /\ UNCHANGED <<server, now, ioVars, wsOpen>>

\* case 'signal'
WsSignal(c, to) ==
  /\ server = "legacy"
  /\ wsOpen[c]
  /\ LET r   == wsRoomId[c]
         seq == IF Has(wsRooms, r) THEN wsRooms[r] ELSE <<>>
         i   == WsFind(seq, wsUserName, to)
     IN sent' = IF to # NoTo
                THEN IF i # 0 /\ wsOpen[seq[i]]
                     THEN SetToBag({SignalMsg(seq[i], wsName[c])}) ELSE EmptyBag
                ELSE WsFanOut(seq, c, LAMBDA e : SignalMsg(e, wsName[c]))
  /\ httpRes' = NoResponse
  /\ lastEvent' = Event("signal", c, wsRoomId[c], to, <<>>)
  /\ UNCHANGED <<server, now, ioVars, wsVars>>

\* ws.on('close')
WsClose(c) ==
  /\ server = "legacy"
  /\ wsOpen[c]
  /\ wsOpen' = [wsOpen EXCEPT ![c] = FALSE]
  /\ LET r == wsRoomId[c]
     IN IF Has(wsRooms, r) /\ wsName[c] # Undefined
        THEN LET rest == SelectSeq(wsRooms[r], LAMBDA e : e # c)
             IN /\ sent' = WsFanOut(rest, c, LAMBDA e : PeerLeft(e, wsName[c]))
                /\ wsRooms' = IF Len(rest) = 0 THEN Del(wsRooms, r)
                              ELSE [wsRooms EXCEPT ![r] = rest]
                /\ lastEvent' = Event("disconnect", c, r, "left", <<>>)
        ELSE /\ sent' = EmptyBag
             /\ wsRooms' = wsRooms
             /\ lastEvent' = Event("disconnect", c, r, "no-room", <<>>)
  /\ httpRes' = NoResponse
  /\ UNCHANGED <<server, now, ioVars, wsRoomId, wsName, wsUserName>>

\* ------------------------------------------------------ specifications
\* The state after start-up of program srv with the sockets in socks
\* connected and not yet joined.  enhanced-server.js ends its listen
\* callback with cleanupOrphanedVideos(), so one pass is pending.
InitWith(srv, socks) ==
  /\ server = srv
  /\ now = 1000
  /\ conn = [s \in Sockets |-> IF s \in socks THEN "open" ELSE "closed"]
  /\ joined = [s \in Sockets |-> {}]
  /\ roomId = [s \in Sockets |-> Undefined]
  /\ userName = [s \in Sockets |-> Undefined]
  /\ rooms = EmptyMap
  /\ micStates = EmptyMap
  /\ videoStates = EmptyMap
  /\ activeStreams = EmptyMap
  /\ streams = <<>>
  /\ files = EmptyMap
  /\ uploads = {}
  /\ filesMade = 0
  /\ mtime = EmptyMap
  /\ timers = IF srv = "enhanced" THEN {PassTimer} ELSE {}
  /\ wsOpen = [s \in Sockets |-> s \in socks]
  /\ wsRoomId = [s \in Sockets |-> Undefined]
  /\ wsName = [s \in Sockets |-> Undefined]
  /\ wsUserName = [s \in Sockets |-> Undefined]
  /\ wsRooms = EmptyMap
  /\ sent = EmptyBag
  /\ httpRes = NoResponse
  /\ lastEvent = Event("start", NoSock, "", "", <<>>)

\* Presence and relay traffic of both programs: three clients.
InitRelay == \E srv \in {"enhanced", "legacy"} : InitWith(srv, Sockets)

NextRelay ==
  \/ \E s \in Sockets, r \in RoomIds, n \in Names : Join(s, r, n)
  \/ \E s \in Sockets, to \in Names \cup {NoTo} : Signal(s, to)
  \/ \E s \in Sockets : Disconnect(s, TRUE)
  \/ \E c \in Sockets, r \in RoomIds, n \in Names : WsJoin(c, r, n)
  \/ \E c \in Sockets, to \in Names \cup {NoTo} : WsSignal(c, to)
  \/ \E c \in Sockets : WsClose(c)

SpecRelay == InitRelay /\ [][NextRelay]_vars

\* The janitor of enhanced-server.js: one client, one upload, the on-demand
\* pass with its retry, the periodic pass, and the clock in whole periods.
InitJanitor == InitWith("enhanced", {"s1"})

NextJanitor ==
  \/ \E n \in Names : Join("s1", "r1", n)
  \/ \E ok \in BOOLEAN : Disconnect("s1", ok)
  \/ \E r \in RoomIds, h \in Names, z \in FileSizes : UploadBegin(r, h, z)
  \/ \E up \in uploads : UploadVideo(up)
  \/ \E out \in [(DOMAIN files) \ ActiveFilePaths -> {"ok", "busy", "error"}] :
        cleanupOrphanedVideos(out)
  \/ \E f \in 1..MaxFiles, ok \in BOOLEAN : RetryUnlink("retry", f, ok)
  \/ \E out \in [{f \in DOMAIN files : shouldDelete(videoStates, f, FileAge(f))}
                    -> {"ok", "busy", "error"}] : periodicCleanup(out)
  \/ Sleep

SpecJanitor == InitJanitor /\ [][NextJanitor]_vars

\* Ending a movie party on enhanced-server.js: two clients, one upload,
\* media requests, stop-movie-party and its delayed deletion.
InitParty == InitWith("enhanced", {"s1", "s2"})

NextParty ==
  \/ \E s \in {"s1", "s2"}, r \in RoomIds, n \in Names : Join(s, r, n)
  \/ \E r \in RoomIds, h \in Names, z \in FileSizes : UploadBegin(r, h, z)
  \/ \E up \in uploads : UploadVideo(up)
  \/ \E r \in RoomIds : GetMovie(r, NoRange)
  \/ \E h \in 1..MaxStreams : ResClose(h)
  \/ \E s \in {"s1", "s2"}, r \in RoomIds, h \in Names : StopMovieParty(s, r, h)
  \/ \E f \in 1..MaxFiles, o \in {"ok", "busy", "error"} : StopUnlink(f, o)
  \/ \E f \in 1..MaxFiles, ok \in BOOLEAN : RetryUnlink("stop-retry", f, ok)

SpecParty == InitParty /\ [][NextParty]_vars

\* Every way a movie party ends on enhanced-server.js: two clients, one
\* upload, media requests, stop-movie-party, host disconnect and the
\* disconnect that empties the room.
InitEnding == InitWith("enhanced", {"s1", "s2"})

NextEnding ==
  \/ \E s \in {"s1", "s2"}, r \in RoomIds, n \in Names : Join(s, r, n)
  \/ \E r \in RoomIds, h \in Names, z \in FileSizes : UploadBegin(r, h, z)
  \/ \E up \in uploads : UploadVideo(up)
  \/ \E r \in RoomIds : GetMovie(r, NoRange)
  \/ \E h \in 1..MaxStreams : FileEnd(h)
  \/ \E s \in {"s1", "s2"}, r \in RoomIds, h \in Names : StopMovieParty(s, r, h)
  \/ \E s \in {"s1", "s2"}, ok \in BOOLEAN : Disconnect(s, ok)

SpecEnding == InitEnding /\ [][NextEnding]_vars

\* The mic-state table of enhanced-server.js: three clients.
InitMic == InitWith("enhanced", Sockets)

NextMic ==
  \/ \E s \in Sockets, r \in RoomIds, n \in Names : Join(s, r, n)
  \/ \E s \in Sockets, m \in BOOLEAN : MicStatus(s, m)
  \/ \E s \in Sockets : Disconnect(s, TRUE)

SpecMic == InitMic /\ [][NextMic]_vars

\* The playback clock of enhanced-server.js: two clients.
InitPlayback == InitWith("enhanced", {"s1", "s2"})

NextPlayback ==
  \/ \E s \in Sockets, r \in RoomIds, n \in Names : Join(s, r, n)
  \/ \E s \in Sockets, k \in {"movie-play", "movie-pause", "movie-seek"},
        d \in PlayPayloads : Control(s, k, d)
  \/ \E s \in Sockets, q \in RoomIds \cup {NoTo} : RequestVideoState(s, q)
  \/ \E r \in RoomIds, h \in Names, z \in FileSizes : UploadBegin(r, h, z)
  \/ \E up \in uploads : UploadVideo(up)
  \/ \E d \in TickSteps : Tick(d)

SpecPlayback == InitPlayback /\ [][NextPlayback]_vars

\* Room and party teardown of enhanced-server.js with open read streams.
InitTeardown == InitWith("enhanced", {"s1", "s2"})

NextTeardown ==
  \/ \E s \in Sockets, r \in RoomIds, n \in Names : Join(s, r, n)
  \/ \E r \in RoomIds, h \in Names, z \in FileSizes : UploadBegin(r, h, z)
  \/ \E up \in uploads : UploadVideo(up)
  \/ \E r \in RoomIds : GetMovie(r, NoRange)
  \/ \E h \in 1..MaxStreams : FileEnd(h)
  \/ \E h \in 1..MaxStreams : FileError(h)
  \/ \E h \in 1..MaxStreams : ResClose(h)
  \/ \E s \in Sockets, ok \in BOOLEAN : Disconnect(s, ok)

SpecTeardown == InitTeardown /\ [][NextTeardown]_vars

\* The media endpoint of enhanced-server.js: every Range header, with the
\* janitor's on-demand passes running.
InitMedia == InitWith("enhanced", {})

NextMedia ==
  \/ \E r \in RoomIds, h \in Names, z \in FileSizes : UploadBegin(r, h, z)
  \/ \E up \in uploads : UploadVideo(up)
  \/ \E r \in RoomIds, g \in Ranges : GetMovie(r, g)
  \/ \E h \in 1..MaxStreams : FileEnd(h)
  \/ \E h \in 1..MaxStreams : ResClose(h)
  \/ \E out \in [(DOMAIN files) \ ActiveFilePaths -> {"ok", "busy", "error"}] :
        cleanupOrphanedVideos(out)
  \/ \E f \in 1..MaxFiles, ok \in BOOLEAN : RetryUnlink("retry", f, ok)

SpecMedia == InitMedia /\ [][NextMedia]_vars

\* ================================================================ claims
ControlKinds == {"movie-play", "movie-pause", "movie-seek"}

\* C1: a movie-play, movie-pause or movie-seek request of a session whose
\* name is not the host of its room's PlaybackState, or whose room has no
\* PlaybackState, changes no PlaybackState (isPlaying, position and
\* lastUpdateTimestamp stay as they were) and delivers no message.
C1_NonHostControlIgnored ==
  [][\A s \in Sockets :
       (/\ lastEvent'.kind \in ControlKinds
        /\ lastEvent'.sock = s
        /\ ~(Has(videoStates, roomId[s]) /\ videoStates[roomId[s]].host = userName[s]))
       => (videoStates' = videoStates /\ sent' = EmptyBag)]_vars

\* A non-host session, with another session in the room to hear a
\* broadcast, has just asked to play a room's video.
C1_Witness ==
  /\ lastEvent.kind = "movie-play"
  /\ lastEvent.branch = "ignored"
  /\ Has(videoStates, lastEvent.room)
  /\ videoStates[lastEvent.room].host # userName[lastEvent.sock]
  /\ IoRoom(lastEvent.room) \ {lastEvent.sock} # {}

\* C7: the reply to request-video-state is one video-state-sync to the
\* requester: for a room with a PlaybackState it carries position plus the
\* time elapsed since lastUpdateTimestamp when isPlaying, the position as
\* stored otherwise; for a room without one it is the hasVideo=false
\* result; and the query changes no state.
C7_QueryExtrapolates ==
  [][lastEvent'.kind = "request-video-state" =>
       LET r == lastEvent'.room
           s == lastEvent'.sock
       IN /\ UNCHANGED <<now, ioVars, wsVars>>
          /\ IF Has(videoStates, r)
             THEN LET v == videoStates[r]
                  IN sent' = SetToBag({Msg("video-state-sync", s, v.host,
                                 IF v.isPlaying
                                 THEN v.currentTime * 1000 + (now - v.lastUpdateTime)
                                 ELSE v.currentTime * 1000,
                                 0, TRUE, v.isPlaying)})
             ELSE sent' = SetToBag({Msg("video-state-sync", s, "", 0, 0, FALSE, FALSE)})]_vars

\* A playing video was queried some time after its last update.
C7_Witness ==
  /\ lastEvent.kind = "request-video-state"
  /\ Has(videoStates, lastEvent.room)
  /\ videoStates[lastEvent.room].isPlaying
  /\ now > videoStates[lastEvent.room].lastUpdateTime
  /\ \E m \in BagToSet(sent) : m.flag /\ m.time > videoStates[lastEvent.room].currentTime * 1000

\* The open sessions with an entry in the registry of room r.
Members(r) ==
  {t \in Sockets : /\ conn[t] = "open"
                   /\ Has(rooms, r)
                   /\ \E i \in 1..Len(rooms[r]) : rooms[r][i].socketId = t}

\* Handle h is in some room's stream set.
Registered(h) == \E q \in DOMAIN activeStreams : h \in activeStreams[q]

\* C2: when a session whose name is the host of its room's PlaybackState
\* disconnects, every session remaining in the room receives exactly one
\* movie-party-ended notice, the room's PlaybackState is gone, and every
\* handle that was registered for the room is closed and deregistered.
C2_HostDisconnectEndsParty ==
  [][\A s \in Sockets :
       (/\ lastEvent'.kind = "disconnect"
        /\ lastEvent'.sock = s
        /\ server = "enhanced"
        /\ Has(videoStates, roomId[s])
        /\ videoStates[roomId[s]].host = userName[s])
       => LET r == roomId[s]
          IN /\ \A t \in Members(r) \ {s} : Received(sent', "movie-party-ended", t) = 1
             /\ ~Has(videoStates', r)
             /\ \A h \in 1..Len(streams) :
                  (Has(activeStreams, r) /\ h \in activeStreams[r])
                  => /\ streams'[h].destroyed
                     /\ \A q \in DOMAIN activeStreams' : h \notin activeStreams'[q]]_vars

\* The host has just disconnected from a room where another session
\* remains, and the disconnect closed an open read stream.
C2_Witness ==
  /\ lastEvent.kind = "disconnect"
  /\ lastEvent.branch = "host"
  /\ lastEvent.handles # {}
  /\ Members(lastEvent.room) # {}
  /\ \E m \in BagToSet(sent) : m.type = "movie-party-ended"

\* C3: after the disconnect that removes the last session of a room, the
\* room registry, the mic-state map, the playback-state map and the
\* active-stream map hold no key for that room id.
C3_NoResidualEntry ==
  [][\A s \in Sockets :
       (/\ lastEvent'.kind = "disconnect"
        /\ lastEvent'.sock = s
        /\ server = "enhanced"
        /\ Has(rooms, roomId[s])
        /\ \A i \in 1..Len(rooms[roomId[s]]) : rooms[roomId[s]][i].socketId = s)
       => /\ ~Has(rooms', roomId[s])
          /\ ~Has(micStates', roomId[s])
          /\ ~Has(videoStates', roomId[s])
          /\ ~Has(activeStreams', roomId[s])]_vars

\* C8: a stream handle is closed exactly once and leaves its room's set
\* with it: its descriptor is never closed twice, it is registered exactly
\* while it is open, and after end-of-data, an I/O error, the client's
\* abort or a closeActiveStreams of its room it is closed and deregistered.
C8_ClosedExactlyOnce ==
  \A h \in 1..Len(streams) :
    /\ streams[h].closes <= 1
    /\ streams[h].destroyed <=> (streams[h].closes = 1)
    /\ Registered(h) <=> ~streams[h].destroyed
    /\ streams[h].resClosed => streams[h].destroyed
    /\ (lastEvent.kind \in {"file-end", "file-error", "res-close"} /\ httpRes.handle = h)
         => streams[h].destroyed
    /\ (\E i \in 1..Len(lastEvent.closeAll) : lastEvent.closeAll[i] = streams[h].roomId)
         => streams[h].destroyed

\* The client went away after end-of-data had already closed the handle:
\* the second trigger closed nothing.
C8_Witness ==
  /\ lastEvent.kind = "res-close"
  /\ lastEvent.handles = {}
  /\ streams[httpRes.handle].closes = 1
  /\ \E h \in 1..Len(streams) : h # httpRes.handle /\ streams[h].destroyed

\* C9: closeActiveStreams is idempotent: on a room whose stream set is
\* empty or absent it changes nothing, and a second call changes nothing
\* the first call left.
C9_CloseAllIdempotent ==
  \A r \in RoomIds :
    LET S1 == closeActiveStreams(StreamStore, r)
    IN /\ closeActiveStreams(S1, r) = S1
       /\ (~Has(activeStreams, r) \/ activeStreams[r] = {}) => S1 = StreamStore

\* A disconnect called closeActiveStreams twice on its room and the first
\* call closed two open streams.
C9_Witness ==
  /\ lastEvent.kind = "disconnect"
  /\ Len(lastEvent.closeAll) = 2
  /\ lastEvent.closeAll[1] = lastEvent.closeAll[2]
  /\ Cardinality(lastEvent.handles) = 2

\* The open connections with an entry in the legacy registry of room r.
WsMembers(r) ==
  {t \in Sockets : /\ wsOpen[t]
                   /\ Has(wsRooms, r)
                   /\ \E i \in 1..Len(wsRooms[r]) : wsRooms[r][i] = t}

\* The sessions in room r, in whichever program runs.
InRoom(r) == IF server = "enhanced" THEN Members(r) ELSE WsMembers(r)

\* The room a session last joined, in whichever program runs.
RoomOf(s) == IF server = "enhanced" THEN roomId[s] ELSE wsRoomId[s]

\* Session t has a registry entry in room r under the name n.
InRoomAs(t, r, n) ==
  IF server = "enhanced"
  THEN Has(rooms, r) /\ \E i \in 1..Len(rooms[r]) : rooms[r][i] = Entry(t, n)
  ELSE t \in WsMembers(r) /\ wsUserName[t] = n

\* C4: when session B joins a room, B receives exactly one existing-peer
\* notice per session already in the room and none for itself, and every
\* session already in the room receives exactly one new-peer notice.
C4_JoinNoticesOncePerPeer ==
  [][lastEvent'.kind = "join"
     => LET B       == lastEvent'.sock
            already == InRoom(lastEvent'.room) \ {B}
        IN /\ Received(sent', "existing-peer", B) = Cardinality(already)
           /\ \A t \in already : Received(sent', "new-peer", t) = 1]_vars

\* C5: a targeted signal {to: X} reaches at most one session, only a
\* session with an entry under the name X in the sender's room, nobody when
\* the room has no such entry, and it changes no state.
C5_TargetedSignal ==
  [][(lastEvent'.kind = "signal" /\ lastEvent'.branch \in Names)
     => LET s == lastEvent'.sock
            X == lastEvent'.branch
            r == RoomOf(s)
        IN /\ BagCardinality(sent') <= 1
           /\ \A m \in BagToSet(sent') : m.type = "signal" /\ InRoomAs(m.to, r, X)
           /\ (~\E t \in Sockets : InRoomAs(t, r, X)) => sent' = EmptyBag
           /\ UNCHANGED <<server, now, ioVars, wsVars>>]_vars

\* A targeted signal was delivered to another session of the sender's room
\* while a session of the same name sits in a different room.
C5_Witness ==
  /\ lastEvent.kind = "signal"
  /\ lastEvent.branch \in Names
  /\ \E m \in BagToSet(sent) : m.to # lastEvent.sock
  /\ \E t \in Sockets, q \in RoomIds \ {lastEvent.room} : InRoomAs(t, q, lastEvent.branch)

\* C6: a signal without a 'to' field is delivered exactly once to every
\* other session in the sender's room, and to nobody else.
C6_BroadcastSignalOnce ==
  [][(lastEvent'.kind = "signal" /\ lastEvent'.branch = NoTo)
     => LET s == lastEvent'.sock
        IN \A t \in Sockets :
             Received(sent', "signal", t)
               = IF t # s /\ t \in InRoom(RoomOf(s)) THEN 1 ELSE 0]_vars

\* C10: on a room with an asset, bytes=start-end with
\* 0 <= start <= end < size is answered 206 with range start-end/size and
\* length end - start + 1, and a request without a range is answered 200
\* with length size, both registering a handle; a room without a
\* PlaybackState is answered 404 and no handle is registered.
C10_RangeResponse ==
  [][lastEvent'.kind = "get-movie"
     => LET r     == lastEvent'.room
            g     == lastEvent'.range
            asset == Has(videoStates, r) /\ Has(files, videoStates[r].filePath)
            size  == files[videoStates[r].filePath]
            registers == /\ httpRes'.handle \in activeStreams'[r]
                         /\ ~Registered(httpRes'.handle)
                         /\ ~streams'[httpRes'.handle].destroyed
        IN /\ (/\ asset /\ g.present /\ g.hasStart /\ g.hasEnd
               /\ 0 <= g.start /\ g.start <= g.end /\ g.end < size)
              => /\ httpRes'.status = 206
                 /\ httpRes'.start = g.start
                 /\ httpRes'.end = g.end
                 /\ httpRes'.total = size
                 /\ httpRes'.length = g.end - g.start + 1
                 /\ registers
           /\ (asset /\ ~g.present)
              => /\ httpRes'.status = 200
                 /\ httpRes'.length = size
                 /\ registers
           /\ ~Has(videoStates, r)
              => /\ httpRes'.status = 404
                 /\ UNCHANGED <<streams, activeStreams>>]_vars

\* A request for bytes 1-2 of a three-byte asset was answered 206.
C10_Witness ==
  /\ lastEvent.kind = "get-movie"
  /\ lastEvent.range.present /\ lastEvent.range.hasStart /\ lastEvent.range.hasEnd
  /\ httpRes.status = 206
  /\ httpRes.start = 1 /\ httpRes.end = 2 /\ httpRes.total = 3
  /\ httpRes.length = 2

\* C11: a range request whose end is at or past the asset size is served
\* with the end clamped to size - 1: the declared end never exceeds
\* size - 1 and the declared length is (size - 1) - start + 1.
C11_RangeEndClamped ==
  [][(lastEvent'.kind = "get-movie" /\ httpRes'.status = 206)
     => LET r    == lastEvent'.room
            g    == lastEvent'.range
            size == files[videoStates[r].filePath]
        IN (g.hasEnd /\ g.end >= size)
           => /\ httpRes'.end <= size - 1
              /\ httpRes'.length = (size - 1) - httpRes'.start + 1]_vars

C13_PeerLeftOnce ==
  [][(lastEvent'.kind = "disconnect" /\ lastEvent'.branch # "no-room")
     => LET s    == lastEvent'.sock
            r    == RoomOf(s)
            name == IF server = "enhanced" THEN userName[s] ELSE wsName[s]
        IN /\ \A t \in InRoom(r) \ {s} : Received(sent', "peer-left", t) = 1
           /\ \A m \in BagToSet(sent') : m.type = "peer-left" => m.name = name
           /\ IF server = "enhanced"
              THEN Has(rooms', r) => \A i \in 1..Len(rooms'[r]) : rooms'[r][i].socketId # s
              ELSE Has(wsRooms', r) => \A i \in 1..Len(wsRooms'[r]) : wsRooms'[r][i] # s]_vars

\* The number of registry entries a session has over all rooms.
EntriesOf(s) ==
  IF server = "enhanced"
  THEN SumLen([r \in DOMAIN rooms |-> SelectSeq(rooms[r], LAMBDA e : e.socketId = s)],
              DOMAIN rooms)
  ELSE SumLen([r \in DOMAIN wsRooms |-> SelectSeq(wsRooms[r], LAMBDA e : e = s)],
              DOMAIN wsRooms)

\* C14: in every reachable state a session has at most one membership
\* entry across all rooms of the registry.
C14_SingleMembership == \A s \in Sockets : EntriesOf(s) <= 1

\* C15: the muted flag of a connected session is changed or removed by no
\* join, mic-status or disconnect of another session.
C15_MicFlagOwnedBySession ==
  [][\A t \in Sockets :
       (/\ lastEvent'.kind \in {"join", "mic-status", "disconnect"}
        /\ lastEvent'.sock # t
        /\ t \in Members(roomId[t])
        /\ Has(micStates, roomId[t])
        /\ userName[t] \in DOMAIN micStates[roomId[t]])
       => /\ Has(micStates', roomId[t])
          /\ userName[t] \in DOMAIN micStates'[roomId[t]]
          /\ micStates'[roomId[t]][userName[t]] = micStates[roomId[t]][userName[t]]]_vars

\* C16: no cleanup path (the periodic pass, the on-demand pass, the delayed
\* retry) deletes a file that a PlaybackState references at the moment of
\* the deletion.
C16_NoReferencedFileDeleted ==
  [][lastEvent'.kind \in {"cleanup-pass", "periodic-pass", "retry"}
     => \A f \in (DOMAIN files) \ (DOMAIN files') :
          \A r \in DOMAIN videoStates : videoStates[r].filePath # f]_vars

\* C17: a janitor pass, periodic or on-demand, deletes an unreferenced file
\* only when its age exceeds the threshold in force: the shorter one when
\* no PlaybackState exists, the longer one otherwise.
C17_OnlyAgedFilesDeleted ==
  [][lastEvent'.kind \in {"cleanup-pass", "periodic-pass"}
     => \A f \in (DOMAIN files) \ (DOMAIN files') :
          FileAge(f) > (IF DOMAIN videoStates = {} THEN IdleAge ELSE OrphanAge)]_vars

\* C18: a handler that fails partway (a play, pause or seek without
\* payload, a disconnect whose file deletion fails) leaves the room
\* registry, the mic states, the playback states and the stream sets
\* either exactly as before the event or exactly as a complete handling
\* leaves them, which for the disconnect that empties a room means no key
\* of that room in any of the four stores.
C18_AllOrNothing ==
  [][lastEvent'.branch = "threw"
     => \/ UNCHANGED <<rooms, micStates, videoStates, activeStreams>>
        \/ /\ lastEvent'.kind = "disconnect"
           /\ ~Has(rooms', lastEvent'.room)
           /\ ~Has(micStates', lastEvent'.room)
           /\ ~Has(videoStates', lastEvent'.room)
           /\ ~Has(activeStreams', lastEvent'.room)]_vars

\* C19: on every teardown path (stop-movie-party with its delayed deletion,
\* host disconnect, room becoming empty) no read stream is open on the
\* room's asset file at the moment its deletion is attempted.
C19_ClosedBeforeUnlink ==
  [][lastEvent'.kind \in {"disconnect", "stop-unlink", "stop-retry"}
     => lastEvent'.readers = {}]_vars

\* C20: every video-state-sync the server sends for a room that has a
\* PlaybackState, pushed at join or sent in reply to request-video-state,
\* reports the effective position: position + (now - lastUpdateTime) while
\* playing, the stored position otherwise.
C20_SyncReportsEffectivePosition ==
  [][\A m \in BagToSet(sent') :
       (m.type = "video-state-sync" /\ m.flag)
       => LET v == videoStates[lastEvent'.room]
          IN m.time = IF v.isPlaying
                      THEN v.currentTime * 1000 + (now - v.lastUpdateTime)
                      ELSE v.currentTime * 1000]_vars

\* C21: in every reachable state the position stored in every
\* PlaybackState is non-negative.
C21_PositionNonNegative ==
  \A r \in DOMAIN videoStates : videoStates[r].currentTime >= 0

\* C22: after a session disconnects, no room of the registry contains a
\* membership entry for it, whatever joins it performed before.
C22_NoEntryAfterDisconnect ==
  \A s \in Sockets :
    (IF server = "enhanced" THEN conn[s] = "closed" ELSE ~wsOpen[s])
    => EntriesOf(s) = 0

\* C23: in every reachable state a PlaybackState exists only for a room id
\* that is in the room registry with at least one session.
C23_PlaybackStateHasRoom ==
  \A r \in DOMAIN videoStates : Has(rooms, r) /\ Len(rooms[r]) >= 1

\* C24: at every event boundary a room whose stream set holds a registered
\* handle has a PlaybackState: handles are registered only while one
\* exists and every removal of it deregisters all handles of the room.
C24_StreamsImplyPlaybackState ==
  \A r \in DOMAIN activeStreams : activeStreams[r] # {} => Has(videoStates, r)

\* A party with a registered handle has just been ended, by the host's
\* stop or by the host's disconnect, and the room has neither a
\* PlaybackState nor a stream set left.
C24_Witness ==
  /\ lastEvent.kind \in {"stop-movie-party", "disconnect"}
  /\ lastEvent.handles # {}
  /\ ~Has(videoStates, lastEvent.room)
  /\ ~Has(activeStreams, lastEvent.room)

\* C25: a stop-movie-party request removes a PlaybackState and sends
\* movie-party-ended only for a room the requesting session is a member
\* of, whatever roomId its payload carries.
C25_StopOnlyOwnRoom ==
  [][(/\ lastEvent'.kind = "stop-movie-party"
      /\ lastEvent'.sock \notin Members(lastEvent'.room))
     => /\ videoStates' = videoStates
        /\ sent' = EmptyBag]_vars

\* C26: in every reachable state and for every room, the names that have
\* an entry in the room's mic-state map are exactly the names of the
\* sessions in the room.
C26_MicNamesMatchMembers ==
  \A r \in (DOMAIN rooms) \cup (DOMAIN micStates) :
    (IF Has(micStates, r) THEN DOMAIN micStates[r] ELSE {})
      = (IF Has(rooms, r) THEN {rooms[r][i].userName : i \in 1..Len(rooms[r])} ELSE {})

====
